---------------------------- MODULE Spec2Model ----------------------------
(***************************************************************************)
(* A model of create_icon.py: a script that allocates a transparent        *)
(* 256x256 RGBA canvas, fills one fixed 16-vertex polygon on it and saves  *)
(* the canvas to logo.ico as an icon container with six embedded sizes.    *)
(*                                                                         *)
(* The state is the position in create_icon (pc), its local image (img),   *)
(* the content of the output path (file), the lines printed (stdout) and   *)
(* the number of times the script has been started (run).  The other       *)
(* variables record what happened, so that properties about "once per      *)
(* run" and about two successive runs can be stated:                       *)
(*   created     canvases allocated by the current run                     *)
(*   drawn       the vertex lists the current run handed to draw.polygon   *)
(*   saves       calls of img.save by the current run                      *)
(*   saved       whether img.save returned in the current run              *)
(*   lastCanvas  the canvas handed to the most recent img.save             *)
(*   prevDone    whether the run before the current one reached its end    *)
(***************************************************************************)
EXTENDS Integers, Sequences, FiniteSets

VARIABLES pc, img, file, stdout, run, created, drawn, saves, saved,
          lastCanvas, prevDone

vars == <<pc, img, file, stdout, run, created, drawn, saves, saved,
          lastCanvas, prevDone>>

\* How many times the script is started in one behaviour.
MaxRuns == 3

(***************************************************************************)
(* Literals of create_icon.                                                *)
(***************************************************************************)
\* Image.new('RGBA', (256, 256), ...): width and height of the canvas.
CanvasWidth == 256

CanvasHeight == 256

\* Image.new(..., (0, 0, 0, 0)): the background colour.
Background == <<0, 0, 0, 0>>

\* The vertex list with the stem's bottom right corner typed below the canvas.
points_OutOfRange ==
    << <<128, 20>>, <<150, 80>>, <<210, 60>>, <<170, 110>>,
       <<220, 160>>, <<150, 160>>, <<160, 260>>, <<140, 240>>,
       <<128, 200>>, <<116, 240>>, <<96, 240>>, <<106, 160>>,
       <<36, 160>>, <<86, 110>>, <<46, 60>>, <<106, 80>> >>

\* The vertex list with the two right-hand corners of the stem's bottom in
\* the wrong order, so that the path crosses itself in the stem.
points_Crossed ==
    << <<128, 20>>, <<150, 80>>, <<210, 60>>, <<170, 110>>,
       <<220, 160>>, <<150, 160>>, <<140, 240>>, <<160, 240>>,
       <<128, 200>>, <<116, 240>>, <<96, 240>>, <<106, 160>>,
       <<36, 160>>, <<86, 110>>, <<46, 60>>, <<106, 80>> >>

\* The vertex list handed to draw.polygon, in order.
points ==
    << <<128, 20>>, <<150, 80>>, <<210, 60>>, <<170, 110>>,
       <<220, 160>>, <<150, 160>>, <<160, 240>>, <<140, 240>>,
       <<128, 200>>, <<116, 240>>, <<96, 240>>, <<106, 160>>,
       <<36, 160>>, <<86, 110>>, <<46, 60>>, <<106, 80>> >>

\* fill='#D94E41': the six hexadecimal digits after the '#'.
FillDigits == <<"D", "9", "4", "E", "4", "1">>

\* sizes=[(256, 256), (128, 128), (64, 64), (48, 48), (32, 32), (16, 16)]
sizes ==
    << <<256, 256>>, <<128, 128>>, <<64, 64>>,
       <<48, 48>>, <<32, 32>>, <<16, 16>> >>

\* The message of the print call.
SuccessLine == "logo.ico created successfully."

(***************************************************************************)
(* The colour string: '#rrggbb' is read as three bytes, and a colour with  *)
(* no alpha digits is opaque on an RGBA image.                             *)
(***************************************************************************)
HexVal(c) ==
    CASE c = "0" -> 0 [] c = "1" -> 1 [] c = "2" -> 2 [] c = "3" -> 3
      [] c = "4" -> 4 [] c = "5" -> 5 [] c = "6" -> 6 [] c = "7" -> 7
      [] c = "8" -> 8 [] c = "9" -> 9 [] c = "A" -> 10 [] c = "B" -> 11
      [] c = "C" -> 12 [] c = "D" -> 13 [] c = "E" -> 14 [] c = "F" -> 15

HexByte(d, i) == 16 * HexVal(d[i]) + HexVal(d[i + 1])

\* The colour of the comment above the vertex list, #FF7F50, not the one
\* of the call.
Ink_Coral(d) == <<255, 127, 80, 255>>

Ink(d) == <<HexByte(d, 1), HexByte(d, 3), HexByte(d, 5), 255>>

(***************************************************************************)
(* The polygon fill.  The closed path joins each vertex to the next and    *)
(* the last to the first.  On every pixel row y the fill takes the         *)
(* crossings of the non-horizontal edges with the row (an edge counts on   *)
(* the rows ymin <= y < ymax), sorts them, and paints from each odd        *)
(* crossing to the next even one, both rounded to the nearest pixel;       *)
(* horizontal edges are painted as they are.  Crossings are exact          *)
(* fractions <<numerator, denominator>> with a positive denominator (the   *)
(* library computes them in floating point, which can differ from the      *)
(* exact value only in which way a crossing at exactly half a pixel is     *)
(* rounded).                                                               *)
(***************************************************************************)
NumPoints(pts) == Len(pts)

EdgeFrom(pts, i) == pts[i]

EdgeTo(pts, i) == pts[(i % Len(pts)) + 1]

Min(a, b) == IF a <= b THEN a ELSE b

Max(a, b) == IF a >= b THEN a ELSE b

CrossesRow(p, q, y) == p[2] /= q[2] /\ Min(p[2], q[2]) <= y /\ y < Max(p[2], q[2])

CrossingX(p, q, y) ==
    IF q[2] > p[2]
    THEN <<p[1] * (q[2] - p[2]) + (y - p[2]) * (q[1] - p[1]), q[2] - p[2]>>
    ELSE <<p[1] * (p[2] - q[2]) + (p[2] - y) * (q[1] - p[1]), p[2] - q[2]>>

FracLeq(a, b) == a[1] * b[2] <= b[1] * a[2]

\* The left end of a span cut down to a whole pixel instead of rounded.
RoundUp_Floor(f) == f[1] \div f[2]

\* floor(f + 1/2)
RoundUp(f) == (2 * f[1] + f[2]) \div (2 * f[2])

\* ceil(f - 1/2)
RoundDown(f) == -((f[2] - 2 * f[1]) \div (2 * f[2]))

RECURSIVE Insert(_, _)
Insert(f, s) ==
    IF s = <<>> THEN <<f>>
    ELSE IF FracLeq(f, Head(s)) THEN <<f>> \o s
    ELSE <<Head(s)>> \o Insert(f, Tail(s))

RECURSIVE RowCrossings(_, _, _)
RowCrossings(pts, y, i) ==
    IF i = 0 THEN <<>>
    ELSE LET rest == RowCrossings(pts, y, i - 1)
             p == EdgeFrom(pts, i)
             q == EdgeTo(pts, i)
         IN  IF CrossesRow(p, q, y) THEN Insert(CrossingX(p, q, y), rest) ELSE rest

\* The pixel spans <<first, last>> painted on row y.
RowSpans(pts, y) ==
    LET xs == RowCrossings(pts, y, NumPoints(pts))
    IN  { <<RoundUp(xs[2 * k - 1]), RoundDown(xs[2 * k])>> : k \in 1..(Len(xs) \div 2) }
        \cup
        { <<Min(EdgeFrom(pts, i)[1], EdgeTo(pts, i)[1]),
            Max(EdgeFrom(pts, i)[1], EdgeTo(pts, i)[1])>> :
            i \in { j \in 1..NumPoints(pts) :
                      EdgeFrom(pts, j)[2] = y /\ EdgeTo(pts, j)[2] = y } }

\* draw.polygon(pts, fill=ink) on canvas im: no outline is drawn.
Polygon(im, pts, ink) ==
    [y \in DOMAIN im |->
        LET spans == RowSpans(pts, y)
        IN  IF spans = {} THEN im[y]
            ELSE [x \in DOMAIN im[y] |->
                    IF \E s \in spans : s[1] <= x /\ x <= s[2] THEN ink ELSE im[y][x]]]

(***************************************************************************)
(* The image and the icon container.                                       *)
(***************************************************************************)
NoImage == <<>>

\* A canvas without transparency: every pixel opaque black.
NewImage_Opaque(w, h, colour) ==
    [y \in 0..(h - 1) |-> [x \in 0..(w - 1) |-> <<0, 0, 0, 255>>]]

\* Image.new(mode, (w, h), colour): rows 0..h-1 of pixels 0..w-1.
NewImage(w, h, colour) == [y \in 0..(h - 1) |-> [x \in 0..(w - 1) |-> colour]]

ImageWidth(im) == Cardinality(DOMAIN im[0])

ImageHeight(im) == Cardinality(DOMAIN im)

\* The canvas brought to w x h.  The encoder's resampling filter is not
\* chosen by create_icon; what is kept of it here is that the result is a
\* w x h image determined by the canvas alone: each pixel is taken from the
\* source pixel under its centre.
Resample(im, w, h) ==
    [y \in 0..(h - 1) |->
        [x \in 0..(w - 1) |->
            im[((2 * y + 1) * ImageHeight(im)) \div (2 * h)]
              [((2 * x + 1) * ImageWidth(im)) \div (2 * w)]]]

\* The size filter with >= for >: a size equal to the image's is dropped.
RECURSIVE KeptSizes_Strict(_, _)
KeptSizes_Strict(im, ss) ==
    IF ss = <<>> THEN <<>>
    ELSE LET s == Head(ss)
         IN  IF s[1] >= ImageWidth(im) \/ s[2] >= ImageHeight(im) \/ s[1] > 256 \/ s[2] > 256
             THEN KeptSizes_Strict(im, Tail(ss))
             ELSE <<s>> \o KeptSizes_Strict(im, Tail(ss))

\* The sizes the encoder keeps: none larger than the image or than 256.
RECURSIVE KeptSizes(_, _)
KeptSizes(im, ss) ==
    IF ss = <<>> THEN <<>>
    ELSE LET s == Head(ss)
         IN  IF s[1] > ImageWidth(im) \/ s[2] > ImageHeight(im) \/ s[1] > 256 \/ s[2] > 256
             THEN KeptSizes(im, Tail(ss))
             ELSE <<s>> \o KeptSizes(im, Tail(ss))

\* One directory entry and its image data.
IcoEntry(im, s) == [width |-> s[1], height |-> s[2], pixels |-> Resample(im, s[1], s[2])]

\* The container img.save(..., format='ICO', sizes=ss) encodes.
IcoImages(im, ss) ==
    LET kept == KeptSizes(im, ss)
    IN  [i \in 1..Len(kept) |-> IcoEntry(im, kept[i])]

(***************************************************************************)
(* The output path.  A file is the number of images its header declares    *)
(* and the images whose data is present.                                   *)
(***************************************************************************)
Absent == [exists |-> FALSE, count |-> 0, images |-> <<>>]

\* An earlier logo.ico of other content: one 16x16 transparent image.
OldIcon ==
    [exists |-> TRUE, count |-> 1,
     images |-> <<[width |-> 16, height |-> 16,
                   pixels |-> NewImage(16, 16, Background)]>>]

\* The file a completed save leaves.
Written(images) == [exists |-> TRUE, count |-> Len(images), images |-> images]

\* The file a save leaves that fails after the first k images are written.
Truncated(images, k) ==
    [exists |-> TRUE, count |-> Len(images), images |-> SubSeq(images, 1, k)]

(***************************************************************************)
(* The script.  pc is the position in create_icon:                         *)
(*   "idle"           the script is not running                            *)
(*   "start"          create_icon entered                                  *)
(*   "canvas_built"   after Image.new and ImageDraw.Draw                   *)
(*   "polygon_drawn"  after draw.polygon                                   *)
(*   "written"        after img.save                                       *)
(*   "done"           after print; create_icon has returned                *)
(*   "failed"         an exception left create_icon                        *)
(***************************************************************************)
Init ==
    /\ pc = "idle"
    /\ img = NoImage
    /\ file \in {Absent, OldIcon}
    /\ stdout = <<>>
    /\ run = 0
    /\ created = 0
    /\ drawn = <<>>
    /\ saves = 0
    /\ saved = FALSE
    /\ lastCanvas = NoImage
    /\ prevDone = FALSE

\* if __name__ == '__main__': create_icon()   (a new process each time)
Invoke ==
    /\ pc \in {"idle", "done", "failed"}
    /\ run < MaxRuns
    /\ pc' = "start"
    /\ run' = run + 1
    /\ img' = NoImage
    /\ stdout' = <<>>
    /\ created' = 0
    /\ drawn' = <<>>
    /\ saves' = 0
    /\ saved' = FALSE
    /\ prevDone' = (pc = "done")
    /\ UNCHANGED <<file, lastCanvas>>

\* img = Image.new('RGBA', (256, 256), (0, 0, 0, 0)); draw = ImageDraw.Draw(img)
NewCanvas ==
    /\ pc = "start"
    /\ img' = NewImage(CanvasWidth, CanvasHeight, Background)
    /\ created' = created + 1
    /\ pc' = "canvas_built"
    /\ UNCHANGED <<file, stdout, run, drawn, saves, saved, lastCanvas, prevDone>>

\* Image.new raises (no memory for the canvas): nothing catches it.
NewCanvasFails ==
    /\ pc = "start"
    /\ pc' = "failed"
    /\ UNCHANGED <<img, file, stdout, run, created, drawn, saves, saved,
                   lastCanvas, prevDone>>

\* draw.polygon called twice (once more for an outline of the fill colour).
DrawPolygon_Twice ==
    /\ pc = "canvas_built"
    /\ img' = Polygon(Polygon(img, points, Ink(FillDigits)), points, Ink(FillDigits))
    /\ drawn' = Append(Append(drawn, points), points)
    /\ pc' = "polygon_drawn"
    /\ UNCHANGED <<file, stdout, run, created, saves, saved, lastCanvas, prevDone>>

\* points = [...]; draw.polygon(points, fill='#D94E41')
DrawPolygon ==
    /\ pc = "canvas_built"
    /\ img' = Polygon(img, points, Ink(FillDigits))
    /\ drawn' = Append(drawn, points)
    /\ pc' = "polygon_drawn"
    /\ UNCHANGED <<file, stdout, run, created, saves, saved, lastCanvas, prevDone>>

\* img.save adding its images to those an existing logo.ico holds.
Save_Append ==
    /\ pc = "polygon_drawn"
    /\ file' = Written(file.images \o IcoImages(img, sizes))
    /\ saves' = saves + 1
    /\ saved' = TRUE
    /\ lastCanvas' = img
    /\ pc' = "written"
    /\ UNCHANGED <<img, stdout, run, created, drawn, prevDone>>

\* img.save('logo.ico', format='ICO', sizes=[...]) completes.
Save ==
    /\ pc = "polygon_drawn"
    /\ file' = Written(IcoImages(img, sizes))
    /\ saves' = saves + 1
    /\ saved' = TRUE
    /\ lastCanvas' = img
    /\ pc' = "written"
    /\ UNCHANGED <<img, stdout, run, created, drawn, prevDone>>

\* A failing img.save tried once more.
SaveFails_Retry ==
    /\ pc = "polygon_drawn"
    /\ saves < 2
    /\ saves' = saves + 1
    /\ lastCanvas' = img
    /\ pc' = "polygon_drawn"
    /\ UNCHANGED <<img, file, stdout, run, created, drawn, saved, prevDone>>

\* A failing img.save whose exception is caught and passed over.
SaveFails_Swallowed ==
    /\ pc = "polygon_drawn"
    /\ saves' = saves + 1
    /\ lastCanvas' = img
    /\ pc' = "written"
    /\ UNCHANGED <<img, file, stdout, run, created, drawn, saved, prevDone>>

\* img.save raises.  The path is written in place (no temporary file, no
\* rename): the file is as it was when the failure comes before the path
\* is opened (no permission) or when save had created the file and removes
\* it again; an existing file that was opened holds the header and the
\* images written so far (a full disk).  Nothing catches the exception:
\* img is dropped with the frame.
SaveFails ==
    /\ pc = "polygon_drawn"
    /\ \/ file' = file
       \/ /\ file.exists
          /\ \E k \in 0..(Len(IcoImages(img, sizes)) - 1) :
                 file' = Truncated(IcoImages(img, sizes), k)
    /\ saves' = saves + 1
    /\ lastCanvas' = img
    /\ img' = NoImage
    /\ pc' = "failed"
    /\ UNCHANGED <<stdout, run, created, drawn, saved, prevDone>>

\* print("logo.ico created successfully."), then create_icon returns and
\* its local img is dropped.
PrintSuccess ==
    /\ pc = "written"
    /\ stdout' = Append(stdout, SuccessLine)
    /\ img' = NoImage
    /\ pc' = "done"
    /\ UNCHANGED <<file, run, created, drawn, saves, saved, lastCanvas, prevDone>>

Next ==
    \/ Invoke
    \/ NewCanvas
    \/ NewCanvasFails
    \/ DrawPolygon
    \/ Save
    \/ SaveFails
    \/ PrintSuccess

Spec == Init /\ [][Next]_vars

\* Inside create_icon the interpreter goes on to the next statement: a run
\* that has started and has neither returned nor raised leaves its position.
\* (Starting the script again is up to the user, and is not required.)
Running == pc \in {"start", "canvas_built", "polygon_drawn", "written"}

Advance ==
    /\ Running
    /\ pc' \in {"canvas_built", "polygon_drawn", "written", "done", "failed"}

FairSpec == Spec /\ WF_pc(Advance)

(***************************************************************************)
(* Plane geometry of the closed path, used to state the properties.        *)
(* Everything is in integers: a pixel (x, y) is the unit square centred    *)
(* on the drawing coordinate (x, y), so coordinates are doubled to keep    *)
(* the square's corners (2x +- 1, 2y +- 1) integral.                       *)
(***************************************************************************)
Orient(a, b, c) == (b[1] - a[1]) * (c[2] - a[2]) - (b[2] - a[2]) * (c[1] - a[1])

Between(u, v, w) == Min(u, v) <= w /\ w <= Max(u, v)

OnSegment(a, b, c) ==
    Orient(a, b, c) = 0 /\ Between(a[1], b[1], c[1]) /\ Between(a[2], b[2], c[2])

Sign(v) == IF v > 0 THEN 1 ELSE IF v < 0 THEN -1 ELSE 0

\* Two closed segments have a point in common.
SegmentsMeet(a, b, c, d) ==
    \/ /\ Sign(Orient(a, b, c)) * Sign(Orient(a, b, d)) < 0
       /\ Sign(Orient(c, d, a)) * Sign(Orient(c, d, b)) < 0
    \/ OnSegment(a, b, c) \/ OnSegment(a, b, d)
    \/ OnSegment(c, d, a) \/ OnSegment(c, d, b)

Adjacent(pts, i, j) == j = (i % Len(pts)) + 1 \/ i = (j % Len(pts)) + 1

\* Edges i and i+1 share the vertex EdgeTo(i) and nothing else: neither
\* far end lies on the other edge.
MeetOnlyAtVertex(pts, i) ==
    LET j == (i % Len(pts)) + 1
        a == EdgeFrom(pts, i)
        v == EdgeTo(pts, i)
        d == EdgeTo(pts, j)
    IN  a /= v /\ v /= d /\ ~OnSegment(v, d, a) /\ ~OnSegment(a, v, d)

SimplePolygon(pts) ==
    /\ \A i, j \in 1..Len(pts) :
          (i < j /\ ~Adjacent(pts, i, j)) =>
              ~SegmentsMeet(EdgeFrom(pts, i), EdgeTo(pts, i),
                            EdgeFrom(pts, j), EdgeTo(pts, j))
    /\ \A i \in 1..Len(pts) : MeetOnlyAtVertex(pts, i)

Twice(p) == <<2 * p[1], 2 * p[2]>>

\* The signed crossing of the edge a -> b by the ray from c to the right.
EdgeTurn(a, b, c) ==
    IF a[2] <= c[2] /\ c[2] < b[2] /\ Orient(a, b, c) > 0 THEN 1
    ELSE IF b[2] <= c[2] /\ c[2] < a[2] /\ Orient(a, b, c) < 0 THEN -1
    ELSE 0

RECURSIVE Winding(_, _, _)
Winding(pts, c, i) ==
    IF i = 0 THEN 0
    ELSE EdgeTurn(Twice(EdgeFrom(pts, i)), Twice(EdgeTo(pts, i)), c)
         + Winding(pts, c, i - 1)

RayCrossings(pts, c) ==
    Cardinality({ i \in 1..Len(pts) :
                    EdgeTurn(Twice(EdgeFrom(pts, i)), Twice(EdgeTo(pts, i)), c) /= 0 })

OnBoundary(pts, c) ==
    \E i \in 1..Len(pts) : OnSegment(Twice(EdgeFrom(pts, i)), Twice(EdgeTo(pts, i)), c)

\* c is a point of the filled region under the nonzero rule, boundary included.
InRegion(pts, c) == OnBoundary(pts, c) \/ Winding(pts, c, Len(pts)) /= 0

Corners(c) ==
    { <<c[1] - 1, c[2] - 1>>, <<c[1] + 1, c[2] - 1>>,
      <<c[1] - 1, c[2] + 1>>, <<c[1] + 1, c[2] + 1>> }

\* The segment a-b has a point strictly inside the square around c.
MeetsOpenSquare(a, b, c) ==
    /\ Min(a[1], b[1]) < c[1] + 1 /\ Max(a[1], b[1]) > c[1] - 1
    /\ Min(a[2], b[2]) < c[2] + 1 /\ Max(a[2], b[2]) > c[2] - 1
    /\ \E k \in Corners(c) : Orient(a, b, k) > 0
    /\ \E k \in Corners(c) : Orient(a, b, k) < 0

\* The segment a-b has a point in the square around c, its border included.
MeetsClosedSquare(a, b, c) ==
    /\ Min(a[1], b[1]) <= c[1] + 1 /\ Max(a[1], b[1]) >= c[1] - 1
    /\ Min(a[2], b[2]) <= c[2] + 1 /\ Max(a[2], b[2]) >= c[2] - 1
    /\ \E k \in Corners(c) : Orient(a, b, k) >= 0
    /\ \E k \in Corners(c) : Orient(a, b, k) <= 0

\* The whole square of pixel p lies in the filled region.
PixelInside(pts, p) ==
    /\ InRegion(pts, Twice(p))
    /\ \A i \in 1..Len(pts) :
          ~MeetsOpenSquare(Twice(EdgeFrom(pts, i)), Twice(EdgeTo(pts, i)), Twice(p))

\* The square of pixel p has no point in common with the filled region.
PixelOutside(pts, p) ==
    /\ ~InRegion(pts, Twice(p))
    /\ \A i \in 1..Len(pts) :
          ~MeetsClosedSquare(Twice(EdgeFrom(pts, i)), Twice(EdgeTo(pts, i)), Twice(p))

\* The pixels <<x, y>> of the canvas.
Pixels == (0..(CanvasWidth - 1)) \X (0..(CanvasHeight - 1))

\* The set S once its elements are counted (the count makes the set explicit).
Counted(S) == IF Cardinality(S) >= 0 THEN S ELSE {}

InsidePixels == LET S == { p \in Pixels : PixelInside(points, p) } IN Counted(S)

OutsidePixels == LET S == { p \in Pixels : PixelOutside(points, p) } IN Counted(S)

\* Whether the nonzero and the even-odd rule agree at every pixel centre.
FillRulesAgree(pts) ==
    \A p \in Pixels :
        (Winding(pts, Twice(p), Len(pts)) /= 0) <=> (RayCrossings(pts, Twice(p)) % 2 = 1)

PointsRulesAgree == FillRulesAgree(points)

\* The states in which draw.polygon has returned and img still exists.
AfterDraw == pc \in {"polygon_drawn", "written"}

(***************************************************************************)
(* Properties.                                                             *)
(***************************************************************************)

C2_SixSquareImages ==
    saved =>
        /\ file.exists
        /\ file.count = 6
        /\ Len(file.images) = 6
        /\ \A i \in 1..Len(file.images) :
              /\ file.images[i].width = file.images[i].height
              /\ Cardinality(DOMAIN file.images[i].pixels) = file.images[i].height
              /\ \A y \in DOMAIN file.images[i].pixels :
                    Cardinality(DOMAIN file.images[i].pixels[y]) = file.images[i].width
        /\ { file.images[i].width : i \in 1..Len(file.images) } = {256, 128, 64, 48, 32, 16}
        /\ \A i, j \in 1..Len(file.images) :
              file.images[i].width = file.images[j].width => i = j

C2_Witness == pc = "written" /\ saved /\ Len(file.images) = 6

C4_Atomic ==
    [][/\ (pc = "polygon_drawn" /\ pc' = "failed") => file' = file
       /\ (pc = "polygon_drawn" /\ pc' = "written") =>
             file' = Written(IcoImages(img, sizes)) /\ Len(file'.images) = 6
       /\ saves' <= 1]_vars

\* C4 as amended: a run calls img.save at most once and never tries again;
\* a completed save leaves the complete six-image artifact; a failing save
\* leaves logo.ico either as it was or holding the six-image header with
\* fewer than six images; nothing else changes logo.ico.
C4_SingleShot ==
    [][/\ (pc = "polygon_drawn" /\ pc' = "failed") =>
             \/ file' = file
             \/ file'.exists /\ file'.count = 6 /\ Len(file'.images) < 6
       /\ (pc = "polygon_drawn" /\ pc' = "written") =>
             file' = Written(IcoImages(img, sizes)) /\ Len(file'.images) = 6
       /\ saves' <= 1
       /\ pc = "failed" => pc' = "start" /\ run' = run + 1
       /\ file' /= file => pc = "polygon_drawn"]_vars

C4_Witness == pc = "failed" /\ saves = 1 /\ file.exists /\ Len(file.images) < file.count

\* What is printed, by position.
C5_InvariantPart ==
    /\ pc = "failed" => stdout = <<>> /\ ~saved
    /\ stdout /= <<>> => stdout = <<SuccessLine>> /\ saved /\ pc = "done"
    /\ pc = "done" => stdout = <<SuccessLine>> /\ saved

\* C5: a failure of Image.new or of img.save is not caught: the run ends
\* there with nothing printed, and only a new start of the script follows;
\* the confirmation line is printed once, in a run whose img.save returned,
\* and in no other.
C5_FailurePropagates ==
    /\ []C5_InvariantPart
    /\ [][/\ pc = "failed" => pc' = "start" /\ run' = run + 1
          /\ pc' = "failed" => pc \in {"start", "polygon_drawn"} /\ stdout' = stdout
          /\ stdout' /= stdout =>
                \/ pc' = "start" /\ stdout' = <<>>
                \/ pc = "written" /\ saved /\ stdout' = Append(stdout, SuccessLine)]_vars

C5_Witness == run = 2 /\ pc = "failed" /\ saves = 1 /\ ~prevDone /\ stdout = <<>>

C7_CornerTransparent ==
    AfterDraw =>
        /\ img[0][0] = <<0, 0, 0, 0>>
        /\ \A i \in 1..Len(drawn) : ~InRegion(drawn[i], <<0, 0>>)

C7_Witness == pc = "polygon_drawn" /\ Len(drawn) = 1 /\ img[0][0][4] = 0 /\ img[128][128][4] /= 0

\* C8: the polygon handed to draw.polygon is a sequence of exactly 16
\* vertices, each a pair of integers in 0..256.
C8_SixteenVerticesInBounds ==
    \A i \in 1..Len(drawn) :
        /\ Len(drawn[i]) = 16
        /\ \A k \in 1..Len(drawn[i]) :
              /\ Len(drawn[i][k]) = 2
              /\ drawn[i][k][1] \in 0..256
              /\ drawn[i][k][2] \in 0..256

C8_Witness == pc = "polygon_drawn" /\ Len(drawn) = 1 /\ drawn[1][1] = <<128, 20>>

\* The changes of position a run can make.
StepOrder ==
    { <<"idle", "start">>, <<"done", "start">>, <<"failed", "start">>,
      <<"start", "canvas_built">>, <<"canvas_built", "polygon_drawn">>,
      <<"polygon_drawn", "written">>, <<"written", "done">>,
      <<"start", "failed">>, <<"polygon_drawn", "failed">> }

\* What a run has done, by position.
C9_Counts ==
    /\ created <= 1 /\ Len(drawn) <= 1 /\ saves <= 1 /\ Len(stdout) <= 1
    /\ pc \in {"idle", "start"} => created = 0
    /\ pc \in {"canvas_built", "polygon_drawn", "written", "done"} => created = 1
    /\ pc \in {"idle", "start", "canvas_built"} => Len(drawn) = 0 /\ saves = 0
    /\ pc \in {"polygon_drawn", "written", "done"} => Len(drawn) = 1
    /\ pc \in {"written", "done"} => saves = 1 /\ saved
    /\ pc = "written" => img = lastCanvas /\ stdout = <<>>
    /\ pc = "done" => stdout = <<SuccessLine>>

\* C9: a run goes from start to canvas built to polygon drawn to written
\* to done, in that order, no step twice and none left out, unless a step
\* fails and ends it: one canvas is created, one polygon drawn, the canvas
\* is not changed once it is handed to img.save, the file is written once,
\* the line is printed after the write; and every started run comes to done
\* or to the failure of a step.
C9_LinearOneShot ==
    /\ []C9_Counts
    /\ [][/\ <<pc, pc'>> \in StepOrder
          /\ (img' /= img /\ img /= NoImage /\ img' /= NoImage) => pc = "canvas_built"
          /\ file' /= file => (pc = "polygon_drawn" /\ saves = 0)]_vars
    /\ Running ~> (pc \in {"done", "failed"})

C9_Witness == run = 2 /\ pc = "done" /\ prevDone /\ created = 1 /\ Len(drawn) = 1 /\ saves = 1

\* C10: the closed path of the 16 vertices is a simple polygon: edges that
\* are not neighbours have no point in common, neighbours have only their
\* shared vertex in common, and the nonzero and the even-odd fill rule
\* select the same pixels.
C10_SimplePolygon ==
    \A i \in 1..Len(drawn) :
        /\ SimplePolygon(drawn[i])
        /\ drawn[i] = points
        /\ PointsRulesAgree

C10_Witness == pc = "written" /\ Len(drawn) = 1 /\ Len(drawn[1]) = 16 /\ SimplePolygon(drawn[1])

=============================================================================
